---- MODULE Spec2Model ----
(***************************************************************************)
(* ASCII Painter (src/main.py): the image-to-text pipeline and the         *)
(* handlers that drive it.                                                 *)
(*                                                                         *)
(* Bitmaps are bitmaps of one colour: [obj, width, height, px], px an RGB  *)
(* triple.  Every resampling filter maps a constant bitmap to the constant *)
(* bitmap of the new size, so resize is exact on them.                     *)
(*                                                                         *)
(* Python floats (binary64) and numpy float32 values are modelled bit for  *)
(* bit: a finite value is sign * mantissa * 2^exponent with the mantissa a *)
(* natural number kept as base-2^14 limbs, and every operation rounds to   *)
(* nearest, ties to even, at 53 or 24 bits.                                *)
(***************************************************************************)
EXTENDS Integers, Sequences, FiniteSets, TLC

----------------------------------------------------------------------------
(* Natural numbers of any size: little-endian limbs, no leading zero limb. *)

LimbBits == 7 + 7
Base == 2 ^ LimbBits

MaxOf(S) == CHOOSE x \in S : \A y \in S : y <= x

Least(a, b) == IF a < b THEN a ELSE b
Greatest(a, b) == IF a > b THEN a ELSE b

Limb(a, i) == IF i \in 1..Len(a) THEN a[i] ELSE 0

BNTrim(a) ==
    LET nz == {i \in 1..Len(a) : a[i] # 0}
    IN IF nz = {} THEN <<>> ELSE SubSeq(a, 1, MaxOf(nz))

BNFromInt(n) == BNTrim(<<n % Base, (n \div Base) % Base, n \div (Base * Base)>>)

BNToInt(a) == Limb(a, 1) + Limb(a, 2) * Base + Limb(a, 3) * Base * Base

BNCmp(a, b) ==
    LET n == IF Len(a) > Len(b) THEN Len(a) ELSE Len(b)
        d == {i \in 1..n : Limb(a, i) # Limb(b, i)}
    IN IF d = {} THEN 0
       ELSE IF Limb(a, MaxOf(d)) < Limb(b, MaxOf(d)) THEN -1 ELSE 1

\* a + b, the carry into each limb found by carry look-ahead
BNAdd(a, b) ==
    LET n == (IF Len(a) > Len(b) THEN Len(a) ELSE Len(b)) + 1
        t(i) == Limb(a, i) + Limb(b, i)
        c(i) == IF \E j \in 1..(i - 1) :
                     t(j) >= Base /\ \A k \in (j + 1)..(i - 1) : t(k) >= Base - 1
                THEN 1 ELSE 0
    IN BNTrim([i \in 1..n |-> (t(i) + c(i)) % Base])

\* a - b for a >= b, the borrow from each limb found the same way
BNSub(a, b) ==
    LET t(i) == Limb(a, i) - Limb(b, i)
        c(i) == IF \E j \in 1..(i - 1) :
                     t(j) < 0 /\ \A k \in (j + 1)..(i - 1) : t(k) <= 0
                THEN 1 ELSE 0
    IN BNTrim([i \in 1..Len(a) |-> (t(i) - c(i)) % Base])

\* the number sum of d[i] * Base^(i-1) for digits d[i] < Base^3
BNCarry(d) ==
    BNAdd(BNAdd([i \in 1..Len(d) |-> d[i] % Base],
                <<0>> \o [i \in 1..Len(d) |-> (d[i] \div Base) % Base]),
          <<0, 0>> \o [i \in 1..Len(d) |-> d[i] \div (Base * Base)])

\* a * k for 0 <= k < Base
BNMulSmall(a, k) ==
    BNAdd([i \in 1..Len(a) |-> (a[i] * k) % Base],
          <<0>> \o [i \in 1..Len(a) |-> (a[i] * k) \div Base])

\* a * b for a of at most 4 limbs (every mantissa is)
BNMul(a, b) ==
    BNCarry([k \in 1..(Len(a) + Len(b)) |->
        Limb(a, 1) * Limb(b, k) + Limb(a, 2) * Limb(b, k - 1)
        + Limb(a, 3) * Limb(b, k - 2) + Limb(a, 4) * Limb(b, k - 3)])

Zeros(q) == [i \in 1..q |-> 0]

\* a * 2^k
BNShl(a, k) ==
    IF a = <<>> THEN <<>>
    ELSE Zeros(k \div LimbBits) \o BNMulSmall(a, 2 ^ (k % LimbBits))

\* floor(a / 2^k)
BNShr(a, k) ==
    LET q == k \div LimbBits
        r == k % LimbBits
    IN IF q >= Len(a) THEN <<>>
       ELSE BNTrim([i \in 1..(Len(a) - q) |->
                (a[i + q] \div (2 ^ r))
                + (Limb(a, i + q + 1) % (2 ^ r)) * (2 ^ (LimbBits - r))])

\* a mod 2^k = 0
BNLowZero(a, k) ==
    /\ \A i \in 1..(k \div LimbBits) : Limb(a, i) = 0
    /\ (Limb(a, (k \div LimbBits) + 1) % (2 ^ (k % LimbBits))) = 0

BNBit(a, i) == (Limb(a, (i \div LimbBits) + 1) \div (2 ^ (i % LimbBits))) % 2

BitLen(x) == CHOOSE k \in 0..LimbBits : x < 2 ^ k /\ (k = 0 \/ x >= 2 ^ (k - 1))

BNBitLen(a) ==
    IF a = <<>> THEN 0 ELSE LimbBits * (Len(a) - 1) + BitLen(a[Len(a)])

\* Long division (Knuth's algorithm D) by a divisor b whose top limb is >=
\* Base/2: the digit estimated from the top limbs of the remainder r is at
\* most 2 too large.
BNEstimate(r, b) ==
    LET est == (Limb(r, Len(b) + 1) * Base + Limb(r, Len(b))) \div b[Len(b)]
    IN IF est > Base - 1 THEN Base - 1 ELSE est

BNFits(b, d, r) == d >= 0 /\ BNCmp(BNMulSmall(b, d), r) <= 0

BNDigit(b, r, qh) ==
    IF BNFits(b, qh, r) THEN qh ELSE IF BNFits(b, qh - 1, r) THEN qh - 1 ELSE qh - 2

\* the quotient q with the digit d put below it, and what is left of r
BNDivEmit(q, r, b, d) == <<(<<d>> \o q), BNSub(r, BNMulSmall(b, d))>>

\* one step, on limb i of the dividend a: qr = <<quotient so far, remainder
\* so far>>
BNDivStep(qr, a, b, i) ==
    BNDivEmit(qr[1], BNTrim(<<a[i]>> \o qr[2]), b,
              BNDigit(b, BNTrim(<<a[i]>> \o qr[2]),
                      BNEstimate(BNTrim(<<a[i]>> \o qr[2]), b)))

\* the steps from limb i of the dividend down to limb 1, each one evaluated
\* before the next one starts
RECURSIVE BNDivLoop(_, _, _, _)
RECURSIVE BNDivNext(_, _, _, _)
BNDivLoop(qr, a, b, i) ==
    IF i < 1 THEN qr ELSE BNDivNext(BNDivStep(qr, a, b, i), a, b, i)

BNDivNext(step, a, b, i) ==
    IF step = <<>> THEN step ELSE BNDivLoop(step, a, b, i - 1)

BNDivOut(qr, s) == <<BNTrim(qr[1]), BNShr(qr[2], s)>>

BNDivNormal(an, bn, s) ==
    BNDivOut(BNDivLoop(<<(<<>>), (<<>>)>>, an, bn, Len(an)), s)

\* <<floor(a / b), a mod b>> for b > 0
BNDivMod(a, b) ==
    BNDivNormal(BNShl(a, LimbBits - BitLen(b[Len(b)])),
                BNShl(b, LimbBits - BitLen(b[Len(b)])),
                LimbBits - BitLen(b[Len(b)]))

----------------------------------------------------------------------------
(* IEEE-754 values: finite sign * m * 2^e, the infinities and NaN.  P is   *)
(* the precision in bits: 53 for a Python float, 24 for numpy float32.     *)
(* Magnitudes stay in the normal range of both formats in this program.    *)

Fin(s, m, e) == [k |-> "fin", s |-> s, m |-> m, e |-> e]
Inf(s) == [k |-> "inf", s |-> s, m |-> <<>>, e |-> 0]
NaN == [k |-> "nan", s |-> 1, m |-> <<>>, e |-> 0]

FromInt(n) == Fin(IF n < 0 THEN -1 ELSE 1, BNFromInt(IF n < 0 THEN -n ELSE n), 0)

IsZero(x) == x.k = "fin" /\ x.m = <<>>

\* sign * (N + a nonzero fraction if sticky) * 2^e, rounded to P bits, to
\* nearest and ties to even.  With sticky set N holds more than P bits.
Round(s, N, e, sticky, P) ==
    LET L == BNBitLen(N)
    IN IF L <= P THEN Fin(s, N, e)
       ELSE LET sh == L - P
                M == BNShr(N, sh)
                half == BNBit(N, sh - 1) = 1
                rest == sticky \/ ~BNLowZero(N, sh - 1)
                up == half /\ (rest \/ BNBit(M, 0) = 1)
            IN Fin(s, IF up THEN BNAdd(M, <<1>>) ELSE M, e + sh)

FNeg(x) == [x EXCEPT !.s = -x.s]

FMul(x, y, P) ==
    IF x.k = "nan" \/ y.k = "nan" THEN NaN
    ELSE IF x.k = "inf" \/ y.k = "inf"
    THEN IF IsZero(x) \/ IsZero(y) THEN NaN ELSE Inf(x.s * y.s)
    ELSE IF IsZero(x) \/ IsZero(y) THEN Fin(x.s * y.s, <<>>, 0)
    ELSE Round(x.s * y.s, BNMul(x.m, y.m), x.e + y.e, FALSE, P)

\* the quotient and remainder qr of the scaled mantissas, rounded
FDivRound(s, qr, e, P) == Round(s, qr[1], e, qr[2] # <<>>, P)

\* x / y for finite nonzero x and y, the mantissa of x scaled by 2^sh so that
\* the quotient has at least P + 2 bits
FDivScaled(x, y, sh, P) ==
    FDivRound(x.s * y.s, BNDivMod(BNShl(x.m, sh), y.m), x.e - y.e - sh, P)

FDiv(x, y, P) ==
    IF x.k = "nan" \/ y.k = "nan" THEN NaN
    ELSE IF x.k = "inf" THEN IF y.k = "inf" THEN NaN ELSE Inf(x.s * y.s)
    ELSE IF y.k = "inf" THEN Fin(x.s * y.s, <<>>, 0)
    ELSE IF IsZero(y) THEN IF IsZero(x) THEN NaN ELSE Inf(x.s * y.s)
    ELSE IF IsZero(x) THEN Fin(x.s * y.s, <<>>, 0)
    ELSE FDivScaled(x, y, Greatest(P + 2 + BNBitLen(y.m) - BNBitLen(x.m), 0), P)

\* x + y for finite x and y, a and b their mantissas at the exponent e
FAddAligned(x, y, a, b, e, P) ==
    IF x.s = y.s THEN Round(x.s, BNAdd(a, b), e, FALSE, P)
    ELSE IF BNCmp(a, b) = 0 THEN Fin(1, <<>>, 0)
    ELSE IF BNCmp(a, b) > 0 THEN Round(x.s, BNSub(a, b), e, FALSE, P)
    ELSE Round(y.s, BNSub(b, a), e, FALSE, P)

FAdd(x, y, P) ==
    IF x.k = "nan" \/ y.k = "nan" THEN NaN
    ELSE IF x.k = "inf"
    THEN IF y.k = "inf" /\ y.s # x.s THEN NaN ELSE x
    ELSE IF y.k = "inf" THEN y
    ELSE IF x.e < y.e
    THEN FAddAligned(x, y, x.m, BNShl(y.m, y.e - x.e), x.e, P)
    ELSE FAddAligned(x, y, BNShl(x.m, x.e - y.e), y.m, y.e, P)

FSub(x, y, P) == FAdd(x, FNeg(y), P)

\* -1, 0, 1 as x < y, x = y, x > y, for finite x and y
FCmp(x, y) ==
    LET e == IF x.e < y.e THEN x.e ELSE y.e
        a == BNShl(x.m, x.e - e)
        b == BNShl(y.m, y.e - e)
    IN IF x.m = <<>> /\ y.m = <<>> THEN 0
       ELSE IF x.s # y.s THEN (IF x.m = <<>> THEN -y.s ELSE x.s)
       ELSE x.s * BNCmp(a, b)

\* truncation toward zero of a finite value, as int() and astype(uint8) do
FTrunc(x) ==
    x.s * BNToInt(IF x.e >= 0 THEN BNShl(x.m, x.e) ELSE BNShr(x.m, -x.e))

\* a Python float rounded to float32, as numpy does with a scalar operand
ToF32(x) == IF x.k = "fin" THEN Round(x.s, x.m, x.e, FALSE, 24) ELSE x

\* np.clip(x, lo, hi) for integers lo <= hi: NaN stays NaN
FClip(x, lo, hi) ==
    IF x.k = "nan" THEN NaN
    ELSE IF x.k = "inf" THEN FromInt(IF x.s > 0 THEN hi ELSE lo)
    ELSE IF FCmp(x, FromInt(lo)) < 0 THEN FromInt(lo)
    ELSE IF FCmp(x, FromInt(hi)) > 0 THEN FromInt(hi)
    ELSE x

\* the Python float a / b of two ints
PyDiv(a, b) == FDiv(FromInt(a), FromInt(b), 53)

----------------------------------------------------------------------------
(* UIConstants and the ramp catalog *)

MAX_ASCII_WIDTH == 200
OPTIMAL_PIXEL_MULTIPLIER == 4
MAX_PIXEL_HEIGHT == 1200
HIST_BINS == 64
MIN_FONT_SIZE == 4
MAX_FONT_SIZE == 24
DEFAULT_FONT_SIZE == 8

\* the value the width control starts with
DEFAULT_WIDTH == 80

\* the literal 0.55
CHAR_HEIGHT_COMPENSATION == PyDiv(55, 100)

DefaultAsciiSet == "16-Level Alternative (Smoother)"

\* glyphs outside ASCII, the backquote and the double quote are written by
\* code point
ascii_sets ==
    ("8-Level Minimalist (Classic)" :>
        <<" ", ".", ":", "-", "=", "+", "*", "#", "%", "@">>)
    @@ ("10-Level Coarse (Balanced)" :>
        <<" ", ".", "'", "U+0060", "^", ":", "!", "|", "#", "@">>)
    @@ ("16-Level Alternative (Smoother)" :>
        <<" ", ".", "'", "U+0060", "^", "U+0022", ":", ";", "I", "l", "!", "i", "~",
          "+", "*", "#", "%">>)
    @@ ("Unicode Blocks" :> <<" ", "U+2591", "U+2592", "U+2593", "U+2588">>)
    @@ ("Unicode Dot Patterns" :>
        <<" ", "U+2800", "U+2804", "U+2806", "U+2807", "U+283F", "U+28FF">>)
    @@ ("Unicode Mixed Symbols" :>
        <<" ", "U+00B7", "U+2218", "U+25CB", "U+25CF", "U+25C9", "U+2588">>)
    @@ ("Unicode Shade Blocks" :>
        <<" ", "U+2581", "U+2582", "U+2583", "U+2584", "U+2585", "U+2586",
          "U+2587", "U+2588">>)

----------------------------------------------------------------------------
(* The state.  The fields of the ASCIIPainter object keep their names; a   *)
(* widget is held as what it shows.  The preview canvas, its zoom and the  *)
(* window title are written by the handlers but read by nothing modelled   *)
(* here and are left out.  floats keeps what the arithmetic of the run     *)
(* gives for each input it meets (AdjustFloat, HeightFloat and IndexFloat  *)
(* applied to it), so that each is computed once; it never changes.        *)

VARIABLES
    original_image,     \* the loaded bitmap, None before a load
    ascii_text,         \* the rendered text, a sequence of glyphs and "\n"
    current_ascii_set,  \* name of the selected ramp
    ascii_chars,        \* the selected ramp
    invert_colors,
    aspect_ratio,       \* percent
    black_level,
    white_level,
    gamma,              \* in tenths
    brightness,
    contrast,
    ascii_font_size,
    width_var,          \* the width control's IntVar
    hist_canvas,        \* what the histogram canvas shows
    save_btn,           \* 'disabled' or 'normal'
    copy_btn,
    messagebox,         \* title of the last error dialog, "" if none
    config_file,        \* ascii_painter_config.json: <<>> if absent, else <<config>>
    nan_byte,           \* the byte this build's float32 -> uint8 cast gives for NaN
    floats,             \* the floating-point results of the run, by their inputs
    events,             \* the number of events handled so far
    arg,                \* argument of the call under study (function specifications)
    ret                 \* <<>> before the call, then its result

vars ==
    <<original_image, ascii_text, current_ascii_set, ascii_chars, invert_colors,
      aspect_ratio, black_level, white_level, gamma, brightness, contrast,
      ascii_font_size, width_var, hist_canvas, save_btn, copy_btn, messagebox,
      config_file, nan_byte, floats, events, arg, ret>>

\* the object as one record, the self of the methods below
Self ==
    [original_image |-> original_image, ascii_text |-> ascii_text,
     current_ascii_set |-> current_ascii_set, ascii_chars |-> ascii_chars,
     invert_colors |-> invert_colors, aspect_ratio |-> aspect_ratio,
     black_level |-> black_level, white_level |-> white_level, gamma |-> gamma,
     brightness |-> brightness, contrast |-> contrast,
     ascii_font_size |-> ascii_font_size, width_var |-> width_var,
     hist_canvas |-> hist_canvas, save_btn |-> save_btn, copy_btn |-> copy_btn,
     messagebox |-> messagebox, config_file |-> config_file]

\* the object after a method has run
Becomes(self) ==
    /\ original_image' = self.original_image
    /\ ascii_text' = self.ascii_text
    /\ current_ascii_set' = self.current_ascii_set
    /\ ascii_chars' = self.ascii_chars
    /\ invert_colors' = self.invert_colors
    /\ aspect_ratio' = self.aspect_ratio
    /\ black_level' = self.black_level
    /\ white_level' = self.white_level
    /\ gamma' = self.gamma
    /\ brightness' = self.brightness
    /\ contrast' = self.contrast
    /\ ascii_font_size' = self.ascii_font_size
    /\ width_var' = self.width_var
    /\ hist_canvas' = self.hist_canvas
    /\ save_btn' = self.save_btn
    /\ copy_btn' = self.copy_btn
    /\ messagebox' = self.messagebox
    /\ config_file' = self.config_file

----------------------------------------------------------------------------
(* Bitmaps.  A bitmap is of one colour px; obj names the allocation that   *)
(* produced the object, so that "the same object" and "an equal copy"      *)
(* stay apart.                                                             *)

Image(obj, w, h, px) == [obj |-> obj, width |-> w, height |-> h, px |-> px]

None == Image("None", 0, 0, <<0, 0, 0>>)

\* what a call returns: a value, or the exception it raises
Return(v) == [exc |-> "", val |-> v]
Raise(e, v) == [exc |-> e, val |-> v]

\* Image.resize((w, h)): Pillow refuses a size below 1 x 1
Resize(image, w, h, obj) ==
    IF w < 1 \/ h < 1 THEN Raise("ValueError", None)
    ELSE Return(Image(obj, w, h, image.px))

\* ImageOps.grayscale: Pillow's ITU-R 601-2 luma, in 16.16 fixed point
Luma(px) == (px[1] * 19595 + px[2] * 38470 + px[3] * 7471 + 32768) \div 65536

----------------------------------------------------------------------------
(* The values a session draws its inputs from *)

\* the image files the dialog can open, as the RGB bitmap each decodes to
Files ==
    ("strip.png" :> Image("raw", 16, 2, <<100, 100, 100>>))
    @@ ("banner.png" :> Image("raw", 1600, 100, <<200, 100, 50>>))
    @@ ("line.png" :> Image("raw", 801, 1, <<0, 0, 0>>))

\* what the dialog can return: a cancel, the image files, a file that is no image
FileNames == {"", "notes.txt"} \cup DOMAIN Files

BlackLevels == {0, 100}
WhiteLevels == {100, 255}
Gammas == {5, 10}
Brightnesses == {0, 50}
Contrasts == {0, 50}
Widths == {20, 80}
AspectRatios == {30, 100}
FontSizes == {8, 12}
AsciiSetNames == {"8-Level Minimalist (Classic)", "16-Level Alternative (Smoother)"}

\* the outcomes of the undefined cast of NaN to uint8 the model draws
NaNCastOutcomes == {0, 255}

\* the number of events a session handles
MaxEvents == 4

----------------------------------------------------------------------------
(* optimize_image_for_ascii *)

\* a variant without the cap on the height (C2 fails against it)
optimize_uncapped(image) ==
    IF image.width = 0 THEN Raise("ZeroDivisionError", None)
    ELSE
    LET optimal_pixel_width == MAX_ASCII_WIDTH * OPTIMAL_PIXEL_MULTIPLIER
        optimal_pixel_height ==
            FTrunc(FMul(FromInt(optimal_pixel_width),
                        PyDiv(image.height, image.width), 53))
    IN IF image.width > optimal_pixel_width \/ image.height > optimal_pixel_height
       THEN Resize(image, optimal_pixel_width, optimal_pixel_height, "optimized")
       ELSE Return(image)

\* a variant that rounds the two products to nearest (C20 fails against it)
optimize_rounding(image) ==
    IF image.width = 0 THEN Raise("ZeroDivisionError", None)
    ELSE
    LET half == Fin(1, <<1>>, -1)
        aspect_ratio_ == PyDiv(image.height, image.width)
        first_height ==
            FTrunc(FAdd(FMul(FromInt(MAX_ASCII_WIDTH * OPTIMAL_PIXEL_MULTIPLIER),
                             aspect_ratio_, 53), half, 53))
        capped == first_height > MAX_PIXEL_HEIGHT
        optimal_pixel_height == IF capped THEN MAX_PIXEL_HEIGHT ELSE first_height
        optimal_pixel_width ==
            IF capped
            THEN FTrunc(FAdd(FDiv(FromInt(MAX_PIXEL_HEIGHT), aspect_ratio_, 53),
                             half, 53))
            ELSE MAX_ASCII_WIDTH * OPTIMAL_PIXEL_MULTIPLIER
    IN IF image.width > optimal_pixel_width \/ image.height > optimal_pixel_height
       THEN Resize(image, optimal_pixel_width, optimal_pixel_height, "optimized")
       ELSE Return(image)

\* height / width raises ZeroDivisionError on a bitmap of width 0
optimize_image_for_ascii(image) ==
    IF image.width = 0 THEN Raise("ZeroDivisionError", None)
    ELSE
    LET width == image.width
        height == image.height
        max_ascii_width == MAX_ASCII_WIDTH
        aspect_ratio_ == PyDiv(height, width)
        first_height ==
            FTrunc(FMul(FromInt(max_ascii_width * OPTIMAL_PIXEL_MULTIPLIER),
                        aspect_ratio_, 53))
        capped == first_height > MAX_PIXEL_HEIGHT
        optimal_pixel_height == IF capped THEN MAX_PIXEL_HEIGHT ELSE first_height
        optimal_pixel_width ==
            IF capped
            THEN FTrunc(FDiv(FromInt(MAX_PIXEL_HEIGHT), aspect_ratio_, 53))
            ELSE max_ascii_width * OPTIMAL_PIXEL_MULTIPLIER
    IN IF width > optimal_pixel_width \/ height > optimal_pixel_height
       THEN Resize(image, optimal_pixel_width, optimal_pixel_height, "optimized")
       ELSE Return(image)

----------------------------------------------------------------------------
(* apply_adjustments.  A ToneSettings record t holds black_level,          *)
(* white_level, gamma, brightness and contrast; gamma is held in tenths,   *)
(* the resolution of its slider, so 10 is the float 1.0.                   *)

DefaultGamma == 10

Tone(b, w, g, br, c) ==
    [black_level |-> b, white_level |-> w, gamma |-> g, brightness |-> br,
     contrast |-> c]

ToneOf(self) ==
    Tone(self.black_level, self.white_level, self.gamma, self.brightness,
         self.contrast)

DefaultTone == Tone(0, 255, DefaultGamma, 0, 0)

\* the float a DoubleVar returns for g tenths
GammaFloat(g) == PyDiv(g, 10)

\* np.power on float32 for the exponents 1/gamma the model draws; powf is
\* taken as correctly rounded
PowF32(x, y) ==
    CASE FCmp(y, FromInt(1)) = 0 -> x
      [] FCmp(y, FromInt(2)) = 0 -> FMul(x, x, 24)

\* a variant of the check that compares gamma, held in tenths, with 1: it
\* never holds, so the fast path is never taken (C1 fails against it)
NoFastPath(t) ==
    /\ t.black_level = 0 /\ t.white_level = 255
    /\ t.gamma = 1 /\ t.brightness = 0 /\ t.contrast = 0

\* the check that skips processing
IsDefaultTone(t) ==
    /\ t.black_level = 0 /\ t.white_level = 255
    /\ t.gamma = DefaultGamma /\ t.brightness = 0 /\ t.contrast = 0

\* a variant of the levels step without the clip (C22 fails against it)
LevelsUnclipped(x, t) ==
    IF t.black_level # 0 \/ t.white_level # 255
    THEN FDiv(FSub(x, FromInt(t.black_level), 24),
              FromInt(t.white_level - t.black_level), 24)
    ELSE FDiv(x, FromInt(255), 24)

\* the levels step on one float32 channel value
Levels(x, t) ==
    IF t.black_level # 0 \/ t.white_level # 255
    THEN FClip(FDiv(FSub(x, FromInt(t.black_level), 24),
                    FromInt(t.white_level - t.black_level), 24), 0, 1)
    ELSE FDiv(x, FromInt(255), 24)

GammaStep(x, t) ==
    IF t.gamma # DefaultGamma
    THEN PowF32(x, ToF32(FDiv(FromInt(1), GammaFloat(t.gamma), 53)))
    ELSE x

BrightnessStep(x, t) ==
    IF t.brightness # 0
    THEN FAdd(x, ToF32(PyDiv(t.brightness, 200)), 24)
    ELSE x

\* a variant of the contrast step that scales by the negated factor (C28
\* fails against it)
ContrastNegated(x, t) ==
    IF t.contrast # 0
    THEN FAdd(FMul(FSub(x, Fin(1, <<1>>, -1), 24),
                   ToF32(PyDiv(-(t.contrast + 100), 100)), 24),
              Fin(1, <<1>>, -1), 24)
    ELSE x

ContrastStep(x, t) ==
    IF t.contrast # 0
    THEN FAdd(FMul(FSub(x, Fin(1, <<1>>, -1), 24),
                   ToF32(PyDiv(t.contrast + 100, 100)), 24),
              Fin(1, <<1>>, -1), 24)
    ELSE x

\* np.clip(x * 255, 0, 255)
ClipTo255(x) == FClip(FMul(x, FromInt(255), 24), 0, 255)

\* a variant of the steps after the gamma step with the contrast step ahead
\* of the brightness step (C11 fails against it)
ContrastBeforeBrightness(corrected, t) ==
    IF corrected.k = "" THEN corrected
    ELSE ClipTo255(BrightnessStep(ContrastStep(corrected, t), t))

\* The steps after the levels step, up to the cast, on a normalised value.
\* Each step is evaluated before the next one starts.
AfterContrast(contrasted) ==
    IF contrasted.k = "" THEN contrasted ELSE ClipTo255(contrasted)

AfterBrightness(brightened, t) ==
    IF brightened.k = "" THEN brightened
    ELSE AfterContrast(ContrastStep(brightened, t))

AfterGamma(corrected, t) ==
    IF corrected.k = "" THEN corrected
    ELSE AfterBrightness(BrightnessStep(corrected, t), t)

AfterLevels(normalised, t) ==
    IF normalised.k = "" THEN normalised
    ELSE AfterGamma(GammaStep(normalised, t), t)

\* one channel value through the array pipeline, up to the cast
AdjustFloat(v, t) == AfterLevels(Levels(FromInt(v), t), t)

\* AdjustFloat on channel values and ToneSettings, as a table
ToneTable(values, tones) ==
    [a \in values \X tones |-> AdjustFloat(a[1], a[2])] @@ <<>>

SessionTones ==
    {Tone(b, w, g, br, c) : b \in BlackLevels, w \in WhiteLevels, g \in Gammas,
                            br \in Brightnesses, c \in Contrasts}

\* a variant of the cast that rounds to nearest (C12 fails against it)
RoundToUint8(x) ==
    IF x.k = "nan" THEN nan_byte ELSE FTrunc(FAdd(x, Fin(1, <<1>>, -1), 24))

\* .astype(np.uint8): truncation; the cast of NaN is undefined and gives
\* the byte nan_byte of the build
AsUint8(x) == IF x.k = "nan" THEN nan_byte ELSE FTrunc(x)

AdjustChannel(v, t) == AsUint8(floats.adjust[<<v, t>>])

apply_adjustments(self, image) ==
    IF image = None THEN None
    ELSE IF IsDefaultTone(ToneOf(self)) THEN image
    ELSE Image("adjusted", image.width, image.height,
               <<>> \o [i \in 1..3 |-> AdjustChannel(image.px[i], ToneOf(self))])

----------------------------------------------------------------------------
(* update_histogram: what the histogram canvas shows *)

\* a variant whose bins overlap, a pixel being counted in its bin and in
\* the one below (C13 fails against it)
HistogramOverlapping(image) ==
    [i \in 0..(HIST_BINS - 1) |->
        IF (Luma(image.px) * HIST_BINS) \div 256 \in {i, i + 1}
        THEN image.width * image.height ELSE 0]

\* np.histogram(gray, bins=HIST_BINS, range=(0, 256)) of a bitmap
Histogram(image) ==
    [i \in 0..(HIST_BINS - 1) |->
        IF i = (Luma(image.px) * HIST_BINS) \div 256
        THEN image.width * image.height ELSE 0]

NoBars == [i \in 0..(HIST_BINS - 1) |-> 0]

\* the canvas between construction and its first <Configure> event
BlankCanvas == [shows |-> "", hist |-> NoBars]

\* a variant that keeps the bitmap it has drawn as original_image (C23
\* fails against it)
update_histogram_keeping(self, image) ==
    [self EXCEPT
        !.original_image = image,
        !.hist_canvas =
            IF image # None
            THEN IF \E i \in 0..(HIST_BINS - 1) : Histogram(image)[i] > 0
                 THEN [shows |-> "bars", hist |-> Histogram(image)]
                 ELSE [shows |-> "", hist |-> NoBars]
            ELSE [shows |-> "No Image", hist |-> NoBars]]

update_histogram(self, image) ==
    [self EXCEPT !.hist_canvas =
        IF image # None
        THEN IF \E i \in 0..(HIST_BINS - 1) : Histogram(image)[i] > 0
             THEN [shows |-> "bars", hist |-> Histogram(image)]
             ELSE [shows |-> "", hist |-> NoBars]
        ELSE [shows |-> "No Image", hist |-> NoBars]]

----------------------------------------------------------------------------
(* image_to_ascii *)

\* a variant that leaves the aspect percent out (C3 fails against it)
HeightWithoutPercent(image_width, image_height, width, aspect_percent) ==
    FTrunc(FMul(FMul(FromInt(width), PyDiv(image_height, image_width), 53),
                CHAR_HEIGHT_COMPENSATION, 53))

\* int(width * aspect_ratio * CHAR_HEIGHT_COMPENSATION * (self.aspect_ratio / 100))
HeightFloat(image_width, image_height, width, aspect_percent) ==
    FTrunc(FMul(FMul(FMul(FromInt(width), PyDiv(image_height, image_width), 53),
                     CHAR_HEIGHT_COMPENSATION, 53),
                PyDiv(aspect_percent, 100), 53))

\* the sizes a session's original_image can have
SessionSizes ==
    {<<o.val.width, o.val.height>> :
        o \in {p \in {optimize_image_for_ascii(Files[f]) : f \in DOMAIN Files} :
                  p.exc = ""}}

\* HeightFloat on bitmap sizes, widths and aspect percents, as a table
HeightTable(sizes, widths, percents) ==
    [a \in sizes \X widths \X percents |->
        HeightFloat(a[1][1], a[1][2], a[2], a[3])] @@ <<>>

RenderHeight(image, width, aspect_percent) ==
    floats.height[<<<<image.width, image.height>>, width, aspect_percent>>]

\* variants of the index: the inverted formula whatever the polarity (C5
\* fails against it), the default formula whatever the polarity (C6), the
\* value scaled by n and wrapped (C7), the value scaled by n (C8)
IndexIgnoringPolarity(pixel_value, invert, n) ==
    FTrunc(FMul(PyDiv(pixel_value, 255), FromInt(n - 1), 53))

IndexAlwaysDefault(pixel_value, invert, n) ==
    FTrunc(FMul(PyDiv(255 - pixel_value, 255), FromInt(n - 1), 53))

IndexWrapped(pixel_value, invert, n) ==
    FTrunc(FMul(PyDiv(IF invert THEN pixel_value ELSE 255 - pixel_value, 255),
                FromInt(n), 53)) % n

IndexScaledByLength(pixel_value, invert, n) ==
    FTrunc(FMul(PyDiv(IF invert THEN pixel_value ELSE 255 - pixel_value, 255),
                FromInt(n), 53))

\* the index into a ramp of length n for one grayscale pixel
IndexFloat(pixel_value, invert, n) ==
    IF invert
    THEN FTrunc(FMul(PyDiv(pixel_value, 255), FromInt(n - 1), 53))
    ELSE FTrunc(FMul(PyDiv(255 - pixel_value, 255), FromInt(n - 1), 53))

\* the bytes a cast can give
CastOutcomes(x) == IF x.k = "nan" THEN NaNCastOutcomes ELSE {FTrunc(x)}

\* the pixels the adjusted bitmap can have, given the table of its channels
PixelOutcomes(px, t, table) ==
    {<<r, g, b>> : r \in CastOutcomes(table[<<px[1], t>>]),
                   g \in CastOutcomes(table[<<px[2], t>>]),
                   b \in CastOutcomes(table[<<px[3], t>>])}

\* the gray levels a session's adjusted bitmaps can have, given the table
\* of their channels
SessionLumas(table) ==
    {Luma(Files[f].px) : f \in DOMAIN Files}
    \cup {Luma(px) : px \in UNION {PixelOutcomes(Files[f].px, t, table) :
                                      f \in DOMAIN Files, t \in SessionTones}}

\* IndexFloat on gray levels, both polarities and ramp lengths, as a table
IndexTable(lumas, lengths) ==
    [a \in lumas \X BOOLEAN \X lengths |-> IndexFloat(a[1], a[2], a[3])] @@ <<>>

CharIndex(pixel_value, invert, chars) ==
    floats.index[<<pixel_value, invert, Len(chars)>>]

\* the results a run keeps
Floats(adjust, height, index) == [adjust |-> adjust, height |-> height, index |-> index]

\* '\n'.join(lines) for lines of one length
Join(lines, width) ==
    IF Len(lines) = 0 THEN <<>>
    ELSE <<>> \o [i \in 1..(Len(lines) * (width + 1) - 1) |->
                     IF i % (width + 1) = 0 THEN "\n"
                     ELSE lines[((i - 1) \div (width + 1)) + 1]
                               [((i - 1) % (width + 1)) + 1]]

\* A record of the call: exc the exception raised ("" if none), text the
\* string returned, and the locals height, pixel_value and char_index as
\* they stand when the call ends.
Call(exc, text, height, pixel_value, char_index) ==
    [exc |-> exc, text |-> text, height |-> height, pixel_value |-> pixel_value,
     char_index |-> char_index]

\* the loop over the rows and columns of the grayscale bitmap
ascii_lines(self, width, height, pixel_value, char_index) ==
    IF char_index >= Len(self.ascii_chars)
    THEN Call("IndexError", <<>>, height, pixel_value, char_index)
    ELSE Call("", Join([y \in 1..height |->
                          [x \in 1..width |-> self.ascii_chars[char_index + 1]]],
                       width),
              height, pixel_value, char_index)

\* from the resize on: resized is what image.resize((width, height)) gave
resized_to_ascii(self, resized, width, height) ==
    IF resized.exc # "" THEN Call(resized.exc, <<>>, height, -1, -1)
    ELSE ascii_lines(self, width, height, Luma(resized.val.px),
                     CharIndex(Luma(resized.val.px), self.invert_colors,
                               self.ascii_chars))

\* from the computation of the height on
adjusted_to_ascii(self, adjusted_image, width, height) ==
    resized_to_ascii(self, Resize(adjusted_image, width, height, "resized"),
                     width, height)

\* a variant that returns the text rendered last when there is one (C14
\* fails against it)
rendered_last(self, adjusted_image, width) ==
    IF self.ascii_text # <<>> THEN Call("", self.ascii_text, -1, -1, -1)
    ELSE adjusted_to_ascii(self, adjusted_image, width,
                           RenderHeight(adjusted_image, width, self.aspect_ratio))

adjusted_image_to_ascii(self, adjusted_image, width) ==
    adjusted_to_ascii(self, adjusted_image, width,
                      RenderHeight(adjusted_image, width, self.aspect_ratio))

image_to_ascii(self, image, width) ==
    adjusted_image_to_ascii(self, apply_adjustments(self, image), width)

----------------------------------------------------------------------------
(* Preferences *)

\* The text json.dump writes is the sequence of its members, each a key and
\* the characters of its value: a str between double quotes (the name is
\* one character of the model), a bool as true or false, an int in decimal
\* digits, a float as float.__repr__ gives it (gamma, held in tenths, has
\* one digit after the point).
DigitChars == <<"0", "1", "2", "3", "4", "5", "6", "7", "8", "9">>

RECURSIVE DecimalDigits(_)
DecimalDigits(n) ==
    IF n < 10 THEN <<DigitChars[n + 1]>>
    ELSE DecimalDigits(n \div 10) \o <<DigitChars[(n % 10) + 1]>>

\* int.__repr__
FormatInt(n) == IF n < 0 THEN <<"-">> \o DecimalDigits(-n) ELSE DecimalDigits(n)

\* a variant that writes a float by its whole part (C26 fails against it)
FormatFloatWhole(tenths) == FormatInt(tenths \div 10) \o <<".", "0">>

\* float.__repr__ of tenths / 10
FormatFloat(tenths) ==
    IF tenths < 0 THEN <<"-">> \o DecimalDigits((-tenths) \div 10)
                       \o <<".", DigitChars[((-tenths) % 10) + 1]>>
    ELSE DecimalDigits(tenths \div 10) \o <<".", DigitChars[(tenths % 10) + 1]>>

FormatBool(b) == IF b THEN <<"true">> ELSE <<"false">>

FormatStr(name) == <<"U+0022", name, "U+0022">>

\* json.dump(config, f, indent=2) of the dict save_preferences builds
json_dump(config) ==
    <<[key |-> "ascii_set", text |-> FormatStr(config.ascii_set)],
      [key |-> "font_size", text |-> FormatInt(config.font_size)],
      [key |-> "invert_colors", text |-> FormatBool(config.invert_colors)],
      [key |-> "aspect_ratio", text |-> FormatInt(config.aspect_ratio)],
      [key |-> "black_level", text |-> FormatInt(config.black_level)],
      [key |-> "white_level", text |-> FormatInt(config.white_level)],
      [key |-> "gamma", text |-> FormatFloat(config.gamma)],
      [key |-> "brightness", text |-> FormatInt(config.brightness)],
      [key |-> "contrast", text |-> FormatInt(config.contrast)]>>

DigitValue(char) == CHOOSE d \in 0..9 : DigitChars[d + 1] = char

RECURSIVE ParseDigits(_)
ParseDigits(text) ==
    IF Len(text) = 0 THEN 0
    ELSE 10 * ParseDigits(SubSeq(text, 1, Len(text) - 1)) + DigitValue(text[Len(text)])

\* a number without a point is an int; one with a point is a float, held in
\* tenths
ParseUnsigned(text) ==
    IF \E i \in 1..Len(text) : text[i] = "."
    THEN LET point == CHOOSE i \in 1..Len(text) : text[i] = "."
         IN 10 * ParseDigits(SubSeq(text, 1, point - 1)) + DigitValue(text[point + 1])
    ELSE ParseDigits(text)

\* the value json.load makes of the characters of a member
ParseValue(text) ==
    IF text[1] = "U+0022" THEN text[2]
    ELSE IF text = <<"true">> THEN TRUE
    ELSE IF text = <<"false">> THEN FALSE
    ELSE IF text[1] = "-" THEN -ParseUnsigned(Tail(text))
    ELSE ParseUnsigned(text)

\* json.load: the object of the members of the text
json_load(members) ==
    [key \in {members[i].key : i \in 1..Len(members)} |->
        ParseValue(members[CHOOSE i \in 1..Len(members) : members[i].key = key].text)]

\* the file holds the text json.dump wrote; config_file is what json.load
\* makes of it
save_preferences(self) ==
    [self EXCEPT !.config_file =
        <<json_load(json_dump(
            [ascii_set |-> self.current_ascii_set,
             font_size |-> self.ascii_font_size,
             invert_colors |-> self.invert_colors,
             aspect_ratio |-> self.aspect_ratio,
             black_level |-> self.black_level,
             white_level |-> self.white_level,
             gamma |-> self.gamma,
             brightness |-> self.brightness,
             contrast |-> self.contrast]))>>]

\* The configuration file is <<>> when there is none and else <<config>>,
\* config the object json.load makes of it, a function of its keys; a
\* file json.load cannot decode is the record NotJSON of its text.
NotJSON == [text |-> "{"]

\* a variant of dict.get that gives 0 for a missing number (C17 fails
\* against it)
get_or_zero(config, key, default) ==
    IF key \in DOMAIN config THEN config[key]
    ELSE IF key \in {"font_size", "aspect_ratio"} THEN 0
    ELSE default

\* dict.get(key, default)
get(config, key, default) == IF key \in DOMAIN config THEN config[key] ELSE default

\* the assignments of load_preferences, from the decoded object
preferences_assigned(self, config, ascii_set) ==
    [self EXCEPT
        !.current_ascii_set = ascii_set,
        !.ascii_font_size = get(config, "font_size", 8),
        !.invert_colors = get(config, "invert_colors", FALSE),
        !.aspect_ratio = get(config, "aspect_ratio", 100),
        !.black_level = get(config, "black_level", 0),
        !.white_level = get(config, "white_level", 255),
        !.gamma = get(config, "gamma", DefaultGamma),
        !.brightness = get(config, "brightness", 0),
        !.contrast = get(config, "contrast", 0),
        !.ascii_chars = get(ascii_sets, ascii_set, ascii_sets[DefaultAsciiSet])]

\* FileNotFoundError and JSONDecodeError are caught and logged
load_preferences(self) ==
    IF self.config_file = <<>> THEN self
    ELSE IF self.config_file[1] = NotJSON THEN self
    ELSE preferences_assigned(self, self.config_file[1],
                              get(self.config_file[1], "ascii_set", DefaultAsciiSet))

\* __init__ up to load_preferences, then setup_ui
Constructed(file) ==
    load_preferences(
        [original_image |-> None, ascii_text |-> <<>>,
         current_ascii_set |-> DefaultAsciiSet,
         ascii_chars |-> ascii_sets[DefaultAsciiSet],
         invert_colors |-> FALSE, aspect_ratio |-> 100,
         black_level |-> 0, white_level |-> 255, gamma |-> DefaultGamma,
         brightness |-> 0, contrast |-> 0,
         ascii_font_size |-> DEFAULT_FONT_SIZE, width_var |-> DEFAULT_WIDTH,
         hist_canvas |-> BlankCanvas, save_btn |-> "disabled",
         copy_btn |-> "disabled", messagebox |-> "", config_file |-> file])

----------------------------------------------------------------------------
(* Loading and converting *)

\* a variant that stores what there is of the text when the call raises
\* (C19 fails against it)
converted_partly(self, call) ==
    IF call.exc = ""
    THEN [self EXCEPT !.ascii_text = call.text, !.save_btn = "normal",
                      !.copy_btn = "normal"]
    ELSE [self EXCEPT !.ascii_text = call.text, !.messagebox = "Conversion Error"]

\* what convert_to_ascii does with the outcome of image_to_ascii
converted(self, call) ==
    IF call.exc = ""
    THEN [self EXCEPT !.ascii_text = call.text, !.save_btn = "normal",
                      !.copy_btn = "normal"]
    ELSE [self EXCEPT !.messagebox = "Conversion Error"]

convert_to_ascii(self) ==
    IF self.original_image = None THEN self
    ELSE converted(self, image_to_ascii(self, self.original_image, self.width_var))

\* Image.open and the conversion to RGB
ImageOpen(filepath) ==
    IF filepath \in DOMAIN Files THEN Return(Files[filepath])
    ELSE Raise("UnidentifiedImageError", None)

\* load_image once original_image is assigned
loaded(self) ==
    [convert_to_ascii(update_histogram(self, self.original_image))
        EXCEPT !.save_btn = "normal", !.copy_btn = "normal"]

\* load_image from the return of optimize_image_for_ascii on
optimized_image(self, optimized) ==
    IF optimized.exc # "" THEN Raise(optimized.exc, self)
    ELSE Return(loaded([self EXCEPT !.original_image = optimized.val]))

\* load_image from the return of Image.open on
opened_image(self, raw_image) ==
    IF raw_image.exc # "" THEN Raise(raw_image.exc, self)
    ELSE optimized_image(self, optimize_image_for_ascii(raw_image.val))

load_image(self, filepath) == opened_image(self, ImageOpen(filepath))

\* the try/except around load_image
load_image_handled(call) ==
    IF call.exc = "" THEN call.val ELSE [call.val EXCEPT !.messagebox = "Error"]

select_image(self, filename) ==
    IF filename = "" THEN self ELSE load_image_handled(load_image(self, filename))

----------------------------------------------------------------------------
(* Handlers *)

\* what every tone handler and tone reset does after its assignments
Redraw(self) ==
    LET saved == save_preferences(self)
    IN IF saved.original_image # None
       THEN convert_to_ascii(
                update_histogram(saved, apply_adjustments(saved, saved.original_image)))
       ELSE saved

\* what the render-setting handlers do after their assignments
Rerender(self) ==
    LET saved == save_preferences(self)
    IN IF saved.original_image # None THEN convert_to_ascii(saved) ELSE saved

\* slider_handler, spinbox_handler and enter_handler of a tone control
adjustment_handler(self, attr_name, value) ==
    Redraw([self EXCEPT ![attr_name] = value])

reset_black_level(self) == Redraw([self EXCEPT !.black_level = 0])
reset_white_level(self) == Redraw([self EXCEPT !.white_level = 255])
reset_gamma(self) == Redraw([self EXCEPT !.gamma = DefaultGamma])
reset_brightness(self) == Redraw([self EXCEPT !.brightness = 0])
reset_contrast(self) == Redraw([self EXCEPT !.contrast = 0])

reset_all_adjustments(self) ==
    Redraw([self EXCEPT !.black_level = 0, !.white_level = 255,
                        !.gamma = DefaultGamma, !.brightness = 0, !.contrast = 0])

on_histogram_resize(self) ==
    IF self.original_image # None
    THEN update_histogram(self, apply_adjustments(self, self.original_image))
    ELSE update_histogram(self, None)

\* the width control writes width_var; its three handlers only convert
on_width_change(self, value) ==
    LET moved == [self EXCEPT !.width_var = value]
    IN IF moved.original_image # None THEN convert_to_ascii(moved) ELSE moved

\* on_aspect_slider_move, on_aspect_enter, on_aspect_spinbox_change
on_aspect_change(self, value) == Rerender([self EXCEPT !.aspect_ratio = value])

reset_aspect_ratio(self) == Rerender([self EXCEPT !.aspect_ratio = 100])

\* a variant that converts without saving (C25 fails against it)
on_invert_change_unsaved(self, value) ==
    LET changed == [self EXCEPT !.invert_colors = value]
    IN IF changed.original_image # None THEN convert_to_ascii(changed) ELSE changed

on_invert_change(self, value) == Rerender([self EXCEPT !.invert_colors = value])

on_ascii_mode_change(self, name) ==
    Rerender([self EXCEPT !.current_ascii_set = name,
                          !.ascii_chars = ascii_sets[name]])

\* on_ascii_font_change, on_ascii_font_spinbox_change, on_ascii_font_enter
on_ascii_font_change(self, value) ==
    save_preferences([self EXCEPT !.ascii_font_size = value])

reset_ascii_zoom(self) ==
    save_preferences([self EXCEPT !.ascii_font_size = DEFAULT_FONT_SIZE])

----------------------------------------------------------------------------
(* The application: the state after construction and one action per handler *)

\* the object is self
Is(self) ==
    /\ original_image = self.original_image
    /\ ascii_text = self.ascii_text
    /\ current_ascii_set = self.current_ascii_set
    /\ ascii_chars = self.ascii_chars
    /\ invert_colors = self.invert_colors
    /\ aspect_ratio = self.aspect_ratio
    /\ black_level = self.black_level
    /\ white_level = self.white_level
    /\ gamma = self.gamma
    /\ brightness = self.brightness
    /\ contrast = self.contrast
    /\ ascii_font_size = self.ascii_font_size
    /\ width_var = self.width_var
    /\ hist_canvas = self.hist_canvas
    /\ save_btn = self.save_btn
    /\ copy_btn = self.copy_btn
    /\ messagebox = self.messagebox
    /\ config_file = self.config_file

\* the first launch: no configuration file yet
Init ==
    /\ \E adjust \in {ToneTable({Files[f].px[i] : f \in DOMAIN Files, i \in 1..3},
                                SessionTones)} :
          floats = Floats(adjust,
                          HeightTable(SessionSizes, Widths, AspectRatios),
                          IndexTable(SessionLumas(adjust),
                                     {Len(ascii_sets[s]) : s \in AsciiSetNames}))
    /\ nan_byte \in NaNCastOutcomes
    /\ events = 0
    /\ arg = <<>>
    /\ ret = <<>>
    /\ Is(Constructed(<<>>))

\* a handler has run
Handled(self) ==
    /\ events < MaxEvents
    /\ events' = events + 1
    /\ Becomes(self)
    /\ UNCHANGED <<nan_byte, floats, arg, ret>>

\* the window is closed and the program started again: nothing but the
\* configuration file survives
Restart == Handled(Constructed(config_file))

SelectImage == \E filename \in FileNames : Handled(select_image(Self, filename))

AdjustBlack ==
    \E value \in BlackLevels : Handled(adjustment_handler(Self, "black_level", value))

AdjustWhite ==
    \E value \in WhiteLevels : Handled(adjustment_handler(Self, "white_level", value))

AdjustGamma ==
    \E value \in Gammas : Handled(adjustment_handler(Self, "gamma", value))

AdjustBrightness ==
    \E value \in Brightnesses : Handled(adjustment_handler(Self, "brightness", value))

AdjustContrast ==
    \E value \in Contrasts : Handled(adjustment_handler(Self, "contrast", value))

ResetBlack == Handled(reset_black_level(Self))
ResetWhite == Handled(reset_white_level(Self))
ResetGamma == Handled(reset_gamma(Self))
ResetBrightness == Handled(reset_brightness(Self))
ResetContrast == Handled(reset_contrast(Self))
ResetAll == Handled(reset_all_adjustments(Self))

HistogramResize == Handled(on_histogram_resize(Self))

WidthChange == \E value \in Widths : Handled(on_width_change(Self, value))

AspectChange == \E value \in AspectRatios : Handled(on_aspect_change(Self, value))

ResetAspect == Handled(reset_aspect_ratio(Self))

InvertChange == \E value \in BOOLEAN : Handled(on_invert_change(Self, value))

AsciiModeChange ==
    \E name \in AsciiSetNames : Handled(on_ascii_mode_change(Self, name))

AsciiFontChange == \E value \in FontSizes : Handled(on_ascii_font_change(Self, value))

ResetAsciiZoom == Handled(reset_ascii_zoom(Self))

Next ==
    \/ Restart
    \/ SelectImage
    \/ AdjustBlack \/ AdjustWhite \/ AdjustGamma \/ AdjustBrightness \/ AdjustContrast
    \/ ResetBlack \/ ResetWhite \/ ResetGamma \/ ResetBrightness \/ ResetContrast
    \/ ResetAll
    \/ HistogramResize
    \/ WidthChange \/ AspectChange \/ ResetAspect
    \/ InvertChange \/ AsciiModeChange
    \/ AsciiFontChange \/ ResetAsciiZoom

Spec == Init /\ [][Next]_vars

----------------------------------------------------------------------------
(* Specifications of single calls: Init draws the object's settings and    *)
(* the argument, the one action makes the call and keeps what it returns.  *)

\* the object before the call under study
Studied(self) == Is(self) /\ events = 0 /\ ret = <<>>

\* the call has returned v
Returned(v) ==
    /\ ret = <<>>
    /\ ret' = <<v>>
    /\ UNCHANGED <<original_image, ascii_text, current_ascii_set, ascii_chars,
                   invert_colors, aspect_ratio, black_level, white_level, gamma,
                   brightness, contrast, ascii_font_size, width_var, hist_canvas,
                   save_btn, copy_btn, messagebox, config_file, nan_byte, floats,
                   events, arg>>

\* apply_adjustments(arg) under every sampled ToneSettings
ToneSamples ==
    {Tone(b, w, g, br, c) : b \in {0, 100, 255}, w \in {0, 100, 200, 255},
                            g \in Gammas, br \in Brightnesses,
                            c \in Contrasts \cup {-50}}

ToneBitmaps ==
    {Image("raw", 4, 2, <<v, v, v>>) : v \in {0, 100, 150, 200, 255}}
    \cup {Image("raw", 4, 2, <<200, 100, 50>>)}

InitTone ==
    /\ floats = Floats(ToneTable({b.px[i] : b \in ToneBitmaps, i \in 1..3}, ToneSamples),
                       <<>>, <<>>)
    /\ nan_byte \in NaNCastOutcomes
    /\ arg \in ToneBitmaps
    /\ \E t \in ToneSamples :
          Studied([Constructed(<<>>) EXCEPT
                      !.black_level = t.black_level, !.white_level = t.white_level,
                      !.gamma = t.gamma, !.brightness = t.brightness,
                      !.contrast = t.contrast])

CallApplyAdjustments == Returned(apply_adjustments(Self, arg))

NextTone == CallApplyAdjustments

SpecTone == InitTone /\ [][NextTone]_vars

\* optimize_image_for_ascii(arg) on every sampled size
MaxSide == 3

SizeSamples ==
    0..MaxSide \cup {9, 50, 450, 799, 800, 801, 1199, 1200, 1201, 1600, 1700, 2000, 2300,
                      2400, 4000, 5000}

InitDown ==
    /\ nan_byte = 0
    /\ floats = Floats(<<>>, <<>>, <<>>)
    /\ arg \in {Image("raw", w, h, <<100, 100, 100>>) : w, h \in SizeSamples}
    /\ Studied(Constructed(<<>>))

CallOptimize == Returned(optimize_image_for_ascii(arg))

NextDown == CallOptimize

SpecDown == InitDown /\ [][NextDown]_vars

\* image_to_ascii(arg, width_var) under every sampled width and aspect
\* percent, on sizes the downsampler can return
RenderSizes ==
    {<<w, h>> : w, h \in 1..MaxSide} \cup {<<16, 2>>, <<800, 9>>, <<800, 50>>, <<800, 450>>}

WidthSamples == {20, 21, 50, 80, 200}
AspectSamples == {30, 100, 120, 200}

InitRender ==
    /\ nan_byte = 0
    /\ floats = Floats(<<>>, HeightTable(RenderSizes, WidthSamples, AspectSamples),
                       IndexTable({128}, {Len(ascii_sets["8-Level Minimalist (Classic)"])}))
    /\ arg \in {Image("raw", z[1], z[2], <<128, 128, 128>>) : z \in RenderSizes}
    /\ \E w \in WidthSamples, a \in AspectSamples, s \in {"8-Level Minimalist (Classic)"} :
          Studied([Constructed(<<>>) EXCEPT
                      !.width_var = w, !.aspect_ratio = a, !.current_ascii_set = s,
                      !.ascii_chars = ascii_sets[s]])

CallImageToAscii == Returned(image_to_ascii(Self, arg, width_var))

NextRender == CallImageToAscii

SpecRender == InitRender /\ [][NextRender]_vars

\* the loop body of image_to_ascii for one pixel: the index, the exception
\* the lookup raises and the glyph appended (a negative index counts from
\* the end)
PixelToGlyph(self, pixel_value) ==
    LET n == Len(self.ascii_chars)
        char_index == CharIndex(pixel_value, self.invert_colors, self.ascii_chars)
        raises == char_index >= n \/ char_index < -n
    IN [pixel_value |-> pixel_value, char_index |-> char_index,
        exc |-> IF raises THEN "IndexError" ELSE "",
        glyph |-> IF raises THEN "" ELSE self.ascii_chars[(char_index % n) + 1]]

\* The loop body on the gray levels 0, 1, ..., 255 in turn, for every ramp
\* and both polarities.  ret keeps the last result and, after it, the
\* least and greatest index met on the darker levels before.
InitQuant ==
    /\ nan_byte = 0
    /\ floats = Floats(<<>>, <<>>,
                       IndexTable(0..255, {Len(ascii_sets[s]) : s \in DOMAIN ascii_sets}))
    /\ arg = 0
    /\ \E s \in DOMAIN ascii_sets, i \in BOOLEAN :
          Studied([Constructed(<<>>) EXCEPT
                      !.current_ascii_set = s, !.ascii_chars = ascii_sets[s],
                      !.invert_colors = i])

CallPixelToGlyph ==
    /\ arg <= 255
    /\ arg' = arg + 1
    /\ ret' = <<PixelToGlyph(Self, arg)>> \o
              (IF ret = <<>> THEN <<>>
               ELSE IF Len(ret) = 1
               THEN <<[least |-> ret[1].char_index, greatest |-> ret[1].char_index]>>
               ELSE <<[least |-> Least(ret[2].least, ret[1].char_index),
                       greatest |-> Greatest(ret[2].greatest, ret[1].char_index)]>>)
    /\ UNCHANGED <<original_image, ascii_text, current_ascii_set, ascii_chars,
                   invert_colors, aspect_ratio, black_level, white_level, gamma,
                   brightness, contrast, ascii_font_size, width_var, hist_canvas,
                   save_btn, copy_btn, messagebox, config_file, nan_byte, floats,
                   events>>

NextQuant == CallPixelToGlyph

SpecQuant == InitQuant /\ [][NextQuant]_vars

\* apply_adjustments on the one-pixel bitmaps of the channel values 0, 1,
\* ..., 255 in turn, under every sampled ToneSettings.  ret keeps the value
\* v, the float n the levels step made of it and the channel out of the
\* bitmap returned and, after it, the greatest out met on the values before.
ChannelTones ==
    {Tone(bw[1], bw[2], g, bc[1], bc[2]) :
        bw \in {<<0, 255>>, <<100, 200>>, <<200, 100>>}, g \in Gammas,
        bc \in {<<0, 0>>, <<-50, 50>>, <<50, -100>>}}

\* Levels on channel values and ToneSettings, as a table
LevelsTable(values, tones) ==
    [a \in values \X tones |-> Levels(FromInt(a[1]), a[2])] @@ <<>>

InitChannel ==
    /\ floats = [levels |-> LevelsTable(0..255, ChannelTones)]
                 @@ Floats(ToneTable(0..255, ChannelTones), <<>>, <<>>)
    /\ nan_byte = 0
    /\ arg = 0
    /\ \E t \in ChannelTones :
          Studied([Constructed(<<>>) EXCEPT
                      !.black_level = t.black_level, !.white_level = t.white_level,
                      !.gamma = t.gamma, !.brightness = t.brightness,
                      !.contrast = t.contrast])

CallOnChannel ==
    /\ arg <= 255
    /\ arg' = arg + 1
    /\ ret' = <<[v |-> arg, n |-> floats.levels[<<arg, ToneOf(Self)>>],
                 out |-> apply_adjustments(Self, Image("raw", 1, 1, <<arg, arg, arg>>))
                             .px[1]]>> \o
              (IF ret = <<>> THEN <<>>
               ELSE IF Len(ret) = 1 THEN <<ret[1].out>>
               ELSE <<Greatest(ret[2], ret[1].out)>>)
    /\ UNCHANGED <<original_image, ascii_text, current_ascii_set, ascii_chars,
                   invert_colors, aspect_ratio, black_level, white_level, gamma,
                   brightness, contrast, ascii_font_size, width_var, hist_canvas,
                   save_btn, copy_btn, messagebox, config_file, nan_byte, floats,
                   events>>

NextChannel == CallOnChannel

SpecChannel == InitChannel /\ [][NextChannel]_vars

\* The program launched on a configuration file, then images selected and
\* the program launched again.  The files: none, one that is no JSON, the
\* objects holding each subset of the nine fields of Preferences, some of
\* them with a key the program does not know, objects holding a value
\* outside the range of its control, and one naming a ramp that ascii_sets
\* does not hold.
Preferences ==
    [ascii_set |-> "8-Level Minimalist (Classic)", font_size |-> 12,
     invert_colors |-> TRUE, aspect_ratio |-> 30, black_level |-> 100,
     white_level |-> 200, gamma |-> 5, brightness |-> 50, contrast |-> 50]

OutOfRange ==
    {[black_level |-> 300], [brightness |-> 150], [aspect_ratio |-> 10]}

UnknownRamp == [ascii_set |-> "Braille"]

PreferenceFiles ==
    {<<>>, <<NotJSON>>}
    \cup {<<[k \in keys |-> Preferences[k]]>> : keys \in SUBSET DOMAIN Preferences}
    \cup {<<[k \in keys |-> Preferences[k]] @@ ("theme" :> "dark")>> :
             keys \in {{}, {"black_level"}, {"ascii_set", "gamma"}, DOMAIN Preferences}}
    \cup {<<config>> : config \in OutOfRange}
    \cup {<<UnknownRamp>>}

\* the ToneSettings and the aspect percents the launches give
PreferenceTones == {ToneOf(Constructed(file)) : file \in PreferenceFiles}
PreferenceAspects == {Constructed(file).aspect_ratio : file \in PreferenceFiles}

PreferenceLumas(table) ==
    {Luma(Files[f].px) : f \in DOMAIN Files}
    \cup {Luma(px) : px \in UNION {PixelOutcomes(Files[f].px, t, table) :
                                      f \in DOMAIN Files, t \in PreferenceTones}}

InitPrefs ==
    /\ \E adjust \in {ToneTable({Files[f].px[i] : f \in DOMAIN Files, i \in 1..3},
                                PreferenceTones)} :
          floats = Floats(adjust,
                          HeightTable(SessionSizes, {DEFAULT_WIDTH}, PreferenceAspects),
                          IndexTable(PreferenceLumas(adjust),
                                     {Len(ascii_sets[s]) : s \in AsciiSetNames}))
    /\ nan_byte \in NaNCastOutcomes
    /\ events = 0
    /\ arg = <<>>
    /\ ret = <<>>
    /\ \E file \in PreferenceFiles : Is(Constructed(file))

\* the number of events after the launch
MaxPrefsEvents == 2

SelectImageAfterLaunch == events < MaxPrefsEvents /\ SelectImage

LaunchAgain == events < MaxPrefsEvents /\ Restart

NextPrefs == SelectImageAfterLaunch \/ LaunchAgain

SpecPrefs == InitPrefs /\ [][NextPrefs]_vars

----------------------------------------------------------------------------
\* save_preferences and then load_preferences in a fresh object.  The
\* object holds one of the sampled combinations of the nine settings, each
\* within the range of its control and the ramp a key of ascii_sets; arg
\* keeps the object as it was before the save.
RoundTripSettings ==
    [ascii_set : DOMAIN ascii_sets,
     font_size : {MIN_FONT_SIZE, MAX_FONT_SIZE},
     invert_colors : BOOLEAN,
     aspect_ratio : {30, 100, 200},
     black_level : {0, 255},
     white_level : {0, 255},
     gamma : {1, 10, 25, 30},
     brightness : {-100, 0, 100},
     contrast : {-100, 50}]

InitRoundTrip ==
    /\ floats = <<>>
    /\ nan_byte = 0
    /\ ret = <<>>
    /\ events = 0
    /\ \E config \in RoundTripSettings :
          arg = [Constructed(<<>>) EXCEPT
                    !.current_ascii_set = config.ascii_set,
                    !.ascii_chars = ascii_sets[config.ascii_set],
                    !.ascii_font_size = config.font_size,
                    !.invert_colors = config.invert_colors,
                    !.aspect_ratio = config.aspect_ratio,
                    !.black_level = config.black_level,
                    !.white_level = config.white_level,
                    !.gamma = config.gamma,
                    !.brightness = config.brightness,
                    !.contrast = config.contrast]
    /\ Is(arg)

SavePreferences == events = 0 /\ Handled(save_preferences(Self))

LaunchFresh == events = 1 /\ Restart

NextRoundTrip == SavePreferences \/ LaunchFresh

SpecRoundTrip == InitRoundTrip /\ [][NextRoundTrip]_vars

----------------------------------------------------------------------------
(* Properties *)

\* C1 (SpecTone): under the default ToneSettings apply_adjustments returns
\* its argument itself: the same object, hence the same pixels.
C1_IdentityTone ==
    (ret # <<>> /\ ToneOf(Self) = DefaultTone) => ret[1] = arg

C1_Witness ==
    /\ ret # <<>>
    /\ ToneOf(Self) = DefaultTone
    /\ arg.px = <<200, 100, 50>>
    /\ ret[1] = arg

\* C2 (SpecDown): a bitmap optimize_image_for_ascii returns is at most 800
\* wide and 1200 high and no larger than its argument in either direction;
\* when the resize raises, no bitmap is returned.
C2_DownsamplerBound ==
    ret # <<>> =>
        IF ret[1].exc = ""
        THEN /\ ret[1].val.width <= 800
             /\ ret[1].val.height <= 1200
             /\ ret[1].val.width <= arg.width
             /\ ret[1].val.height <= arg.height
        ELSE ret[1].val = None

C2_Witness ==
    /\ ret # <<>>
    /\ arg.width = 2400
    /\ arg.height = 4000
    /\ ret[1].exc = ""
    /\ ret[1].val.obj = "optimized"
    /\ ret[1].val.height = 1200

\* the exact product width * H/W * 0.55 * aspect_percent/100 of a call of
\* image_to_ascii, as the fraction ExactNum / ExactDen
ExactNum == 11 * width_var * arg.height * aspect_ratio
ExactDen == 2000 * arg.width

\* the text has exactly lines lines of exactly width_var glyphs
HasLines(text, lines) ==
    /\ Len(text) = lines * (width_var + 1) - 1
    /\ \A i \in 1..Len(text) : (text[i] = "\n") <=> (i % (width_var + 1) = 0)

\* C3 (SpecRender), as corrected: the number of lines is the product
\* truncated, not rounded: the floor of the exact product, or one less
\* when the exact product is a whole number (the floating-point product
\* may fall just below it).  There is no clamp: when the number is below 1
\* the resize raises ValueError and no text is returned.  Otherwise the
\* text has exactly that many lines of exactly width glyphs.
C3_Dimensions ==
    ret # <<>> =>
        LET floor == ExactNum \div ExactDen
        IN /\ ret[1].height \in
                (IF ExactNum % ExactDen = 0 THEN {floor - 1, floor} ELSE {floor})
           /\ IF ret[1].height >= 1
              THEN ret[1].exc = "" /\ HasLines(ret[1].text, ret[1].height)
              ELSE ret[1].exc = "ValueError" /\ ret[1].text = <<>>

C3_Witness ==
    /\ ret # <<>>
    /\ arg.width = 3 /\ arg.height = 1
    /\ width_var = 50 /\ aspect_ratio = 120
    /\ ret[1].exc = ""
    /\ ret[1].height = 10
    /\ HasLines(ret[1].text, 10)

\* C3 as stated: width glyphs on every line and round(width * H/W * 0.55 *
\* aspect_percent/100) lines, clamped to at least 1.
C3_AsStated ==
    ret # <<>> =>
        LET rounded == (2 * ExactNum + ExactDen) \div (2 * ExactDen)
        IN /\ ret[1].exc = ""
           /\ HasLines(ret[1].text, IF rounded < 1 THEN 1 ELSE rounded)

\* C4 (SpecRender), as stated: the height passed to the resize and used as
\* the line count is never below 1.
C4_HeightAtLeastOne == ret # <<>> => ret[1].height >= 1

\* C5 (SpecQuant), as corrected: under default polarity the index is
\* (255 - p)/255 * (N-1) truncated, not rounded; gray level 128 on the
\* 10-glyph ramp gives index 4, the glyph "=".
C5_DefaultPolarity ==
    (ret # <<>> /\ ~invert_colors) =>
        /\ ret[1].exc = ""
        /\ ret[1].char_index =
               ((255 - ret[1].pixel_value) * (Len(ascii_chars) - 1)) \div 255
        /\ ret[1].glyph = ascii_chars[ret[1].char_index + 1]
        /\ (ret[1].pixel_value = 128
               /\ current_ascii_set = "8-Level Minimalist (Classic)")
            => (ret[1].char_index = 4 /\ ret[1].glyph = "=")

C5_Witness ==
    /\ ret # <<>>
    /\ ~invert_colors
    /\ current_ascii_set = "8-Level Minimalist (Classic)"
    /\ ret[1].pixel_value = 120
    /\ ret[1].char_index = 4

\* C5 as stated: under default polarity the index is round((255 - p)/255 * (N-1)).
C5_AsStated ==
    (ret # <<>> /\ ~invert_colors) =>
        ret[1].char_index =
            (2 * (255 - ret[1].pixel_value) * (Len(ascii_chars) - 1) + 255) \div 510

\* C6 (SpecQuant), as corrected: under inverted polarity the index is
\* p/255 * (N-1) truncated, not rounded; gray level 128 on the 10-glyph
\* ramp gives index 4, the glyph "=".
C6_InvertedPolarity ==
    (ret # <<>> /\ invert_colors) =>
        /\ ret[1].exc = ""
        /\ ret[1].char_index = (ret[1].pixel_value * (Len(ascii_chars) - 1)) \div 255
        /\ ret[1].glyph = ascii_chars[ret[1].char_index + 1]
        /\ (ret[1].pixel_value = 128
               /\ current_ascii_set = "8-Level Minimalist (Classic)")
            => (ret[1].char_index = 4 /\ ret[1].glyph = "=")

C6_Witness ==
    /\ ret # <<>>
    /\ invert_colors
    /\ current_ascii_set = "8-Level Minimalist (Classic)"
    /\ ret[1].pixel_value = 128
    /\ ret[1].glyph = "="

\* C6 as stated: under inverted polarity the index is round(p/255 * (N-1)),
\* and gray level 128 on the 10-glyph ramp gives index 5, the glyph "+".
C6_AsStated ==
    (ret # <<>> /\ invert_colors) =>
        /\ ret[1].char_index =
               (2 * ret[1].pixel_value * (Len(ascii_chars) - 1) + 255) \div 510
        /\ (ret[1].pixel_value = 128
               /\ current_ascii_set = "8-Level Minimalist (Classic)")
            => (ret[1].char_index = 5 /\ ret[1].glyph = "+")

C8_IndexInRange ==
    ret # <<>> =>
        /\ ret[1].char_index \in 0..(Len(ascii_chars) - 1)
        /\ ret[1].exc = ""

C8_Witness ==
    /\ ret # <<>>
    /\ invert_colors
    /\ current_ascii_set = "16-Level Alternative (Smoother)"
    /\ ret[1].pixel_value = 255
    /\ ret[1].char_index = 16
    /\ ret[1].glyph = "%"

\* C9 (Spec), as stated: whenever an image is loaded, the histogram on the
\* canvas is the one of apply_adjustments(original_image) under the current
\* ToneSettings.
C9_HistogramConsistent ==
    original_image # None =>
        hist_canvas =
            update_histogram(Self, apply_adjustments(Self, original_image)).hist_canvas

\* C10 (SpecTone), as stated: with black_level = white_level the levels
\* step normalises every channel value v to v/255, and the call returns
\* the bitmap the remaining steps make of that.
C10_DegenerateFallsBack ==
    (ret # <<>> /\ black_level = white_level) =>
        LET fallback(v) ==
                AsUint8(AfterLevels(FDiv(FromInt(v), FromInt(255), 24), ToneOf(Self)))
        IN ret[1] = Image("adjusted", arg.width, arg.height,
                          <<fallback(arg.px[1]), fallback(arg.px[2]),
                            fallback(arg.px[3])>>)

\* The tone steps in exact arithmetic, on a fraction <<numerator,
\* denominator>> with a positive denominator, in lowest terms; the gamma
\* step for the exponents 1/gamma the model draws.
RECURSIVE GCD(_, _)
GCD(a, b) == IF b = 0 THEN a ELSE GCD(b, a % b)

Lowest(num, den) ==
    LET g == GCD(IF num < 0 THEN -num ELSE num, den)
    IN <<num \div g, den \div g>>

ExactLevels(v, t) ==
    IF t.black_level = 0 /\ t.white_level = 255 THEN Lowest(v, 255)
    ELSE LET d == t.white_level - t.black_level
             num == IF d > 0 THEN v - t.black_level ELSE t.black_level - v
             den == IF d > 0 THEN d ELSE -d
         IN IF num < 0 THEN <<0, 1>> ELSE IF num > den THEN <<1, 1>>
            ELSE Lowest(num, den)

ExactGamma(q, t) == IF t.gamma = 5 THEN <<q[1] * q[1], q[2] * q[2]>> ELSE q

ExactBrightness(q, t) == Lowest(200 * q[1] + t.brightness * q[2], 200 * q[2])

ExactContrast(q, t) ==
    Lowest((2 * q[1] - q[2]) * (t.contrast + 100) + 100 * q[2], 200 * q[2])

ExactOutput(q) ==
    IF q[1] < 0 THEN 0 ELSE IF q[1] > q[2] THEN 255 ELSE (255 * q[1]) \div q[2]

ExactTone(v, t) ==
    ExactOutput(ExactContrast(ExactBrightness(ExactGamma(ExactLevels(v, t), t), t), t))

\* C11 (SpecTone): off the fast path every channel of the result is the cast
\* of the clip of contrast(brightness(gamma(levels(v)))), the steps being
\* taken in this order on float32 with nothing between them; with
\* black_level # white_level it is within one of the same composition in
\* exact arithmetic, where brightness adds brightness/200 and contrast
\* scales about 1/2 by (contrast + 100)/100 without a clamp between the two.
C11_ToneOrder ==
    (ret # <<>> /\ ToneOf(Self) # DefaultTone) =>
        \A i \in 1..3 :
            LET t == ToneOf(Self)
                v == arg.px[i]
            IN /\ ret[1].px[i] =
                      AsUint8(ClipTo255(ContrastStep(BrightnessStep(
                          GammaStep(Levels(FromInt(v), t), t), t), t)))
               /\ t.black_level # t.white_level =>
                      ret[1].px[i] - ExactTone(v, t) \in {-1, 0, 1}

\* brightness 50 lifts 255 to 1.25 and contrast -50 then brings it to
\* 0.875: a clamp between the two steps would give 0.75, the other order
\* 1.0
C11_Witness ==
    /\ ret # <<>>
    /\ ToneOf(Self) = Tone(0, 255, DefaultGamma, 50, -50)
    /\ arg.px = <<255, 255, 255>>
    /\ ret[1].px = <<223, 223, 223>>

\* the float32 value apply_adjustments casts for channel i of arg
Clipped(i) ==
    LET t == ToneOf(Self)
    IN ClipTo255(ContrastStep(BrightnessStep(
           GammaStep(Levels(FromInt(arg.px[i]), t), t), t), t))

\* C12 (SpecTone), as corrected: off the fast path the output channel is
\* clamp(n * 255, 0, 255) truncated, not rounded: the integer r with
\* r <= clamp(n * 255, 0, 255) < r + 1 (or r = 255); when the value is NaN,
\* which black_level = white_level = v gives, the output is whatever the
\* cast of the build makes of NaN.  black_level 100 and white_level 200 on
\* a uniform 150 bitmap give 0.5 * 255 = 127.5 and the output 127.
C12_OutputTruncated ==
    (ret # <<>> /\ ToneOf(Self) # DefaultTone) =>
        /\ \A i \in 1..3 :
               IF Clipped(i).k = "nan" THEN ret[1].px[i] = nan_byte
               ELSE /\ ret[1].px[i] \in 0..255
                    /\ FCmp(FromInt(ret[1].px[i]), Clipped(i)) <= 0
                    /\ \/ ret[1].px[i] = 255
                       \/ FCmp(Clipped(i), FromInt(ret[1].px[i] + 1)) < 0
        /\ (ToneOf(Self) = Tone(100, 200, DefaultGamma, 0, 0)
               /\ arg.px = <<150, 150, 150>>)
            => ret[1].px = <<127, 127, 127>>

C12_Witness ==
    /\ ret # <<>>
    /\ ToneOf(Self) = Tone(100, 200, DefaultGamma, 0, 0)
    /\ arg.px = <<150, 150, 150>>
    /\ FCmp(Clipped(1), Fin(1, <<255>>, -1)) = 0
    /\ ret[1].px = <<127, 127, 127>>

\* C12 as stated: the output channel is clamp(n * 255, 0, 255) rounded to
\* the nearest integer (a tie may go either way), and the example gives 128.
C12_AsStated ==
    (ret # <<>> /\ ToneOf(Self) # DefaultTone) =>
        /\ \A i \in 1..3 :
               Clipped(i).k = "fin" =>
                   LET twice == FSub(FAdd(Clipped(i), Clipped(i), 53),
                                     FromInt(2 * ret[1].px[i]), 53)
                   IN FCmp(twice, FromInt(-1)) >= 0 /\ FCmp(twice, FromInt(1)) <= 0
        /\ (ToneOf(Self) = Tone(100, 200, DefaultGamma, 0, 0)
               /\ arg.px = <<150, 150, 150>>)
            => ret[1].px = <<128, 128, 128>>

\* the sum of the counts of the bins 0..i of a histogram
RECURSIVE SumBins(_, _)
SumBins(hist, i) == IF i < 0 THEN 0 ELSE hist[i] + SumBins(hist, i - 1)

\* C13 (Spec): the bars on the canvas are those of HIST_BINS = 64 counts
\* that sum to W x H of the bitmap update_histogram was given, which has
\* the size of original_image whether it is the raw or the adjusted bitmap.
C13_HistogramConservation ==
    hist_canvas.shows = "bars" =>
        /\ DOMAIN hist_canvas.hist = 0..63
        /\ original_image # None
        /\ SumBins(hist_canvas.hist, 63) = original_image.width * original_image.height

C13_Witness ==
    /\ original_image # None
    /\ original_image.width = 800 /\ original_image.height = 50
    /\ ToneOf(Self) = Tone(0, 255, DefaultGamma, 50, 0)
    /\ hist_canvas.shows = "bars"
    /\ hist_canvas.hist[31] = 0
    /\ SumBins(hist_canvas.hist, 63) = 40000

\* the pipeline on the bitmap and the settings of self: what image_to_ascii
\* returns and the counts update_histogram draws for the adjusted bitmap
Pipeline(self) ==
    [art |-> image_to_ascii(self, self.original_image, self.width_var),
     hist |-> update_histogram(self, apply_adjustments(self, self.original_image))
                  .hist_canvas.hist]

\* an object just constructed that has nothing of self but the bitmap, the
\* ToneSettings and the RenderSettings
InputsOf(self) ==
    [Constructed(<<>>) EXCEPT
        !.original_image = self.original_image,
        !.black_level = self.black_level, !.white_level = self.white_level,
        !.gamma = self.gamma, !.brightness = self.brightness,
        !.contrast = self.contrast,
        !.width_var = self.width_var, !.aspect_ratio = self.aspect_ratio,
        !.invert_colors = self.invert_colors,
        !.current_ascii_set = self.current_ascii_set,
        !.ascii_chars = self.ascii_chars]

InDomain(self) ==
    /\ self.black_level \in 0..255
    /\ self.white_level \in 0..255
    /\ self.gamma \in 1..30
    /\ self.brightness \in -100..100
    /\ self.contrast \in -100..100
    /\ self.aspect_ratio \in 30..200

\* C15 (SpecPrefs), as stated: the pipeline renders a text only under
\* settings within their ranges: a value outside its range that the
\* configuration file held has been clamped, or reported instead of used.
C15_OutOfRangeHandled == ascii_text # <<>> => InDomain(Self)

\* the nine fields of the object under their keys in the file, and their
\* defaults
PreferencesOf(self) ==
    [ascii_set |-> self.current_ascii_set, font_size |-> self.ascii_font_size,
     invert_colors |-> self.invert_colors, aspect_ratio |-> self.aspect_ratio,
     black_level |-> self.black_level, white_level |-> self.white_level,
     gamma |-> self.gamma, brightness |-> self.brightness,
     contrast |-> self.contrast]

DefaultPreferences ==
    [ascii_set |-> "16-Level Alternative (Smoother)", font_size |-> 8,
     invert_colors |-> FALSE, aspect_ratio |-> 100, black_level |-> 0,
     white_level |-> 255, gamma |-> 10, brightness |-> 0, contrast |-> 0]

\* C17 (SpecPrefs): after a launch on a file that is a JSON object, every
\* one of the nine fields the object lacks is at its default and every one
\* it holds has the value held, whatever other keys the object has; after a
\* launch on no file or on one that is no JSON all nine are at their
\* defaults.  (No handler of SpecPrefs changes a setting or the file.)
C17_PreferenceDefaults ==
    IF config_file = <<>> \/ config_file = <<NotJSON>>
    THEN PreferencesOf(Self) = DefaultPreferences
    ELSE \A key \in DOMAIN DefaultPreferences :
            PreferencesOf(Self)[key] =
                IF key \in DOMAIN config_file[1] THEN config_file[1][key]
                ELSE DefaultPreferences[key]

C17_Witness ==
    /\ config_file # <<>>
    /\ DOMAIN config_file[1] = {"ascii_set", "gamma", "theme"}
    /\ events = 0
    /\ current_ascii_set = "8-Level Minimalist (Classic)"
    /\ gamma = 5
    /\ ascii_font_size = 8
    /\ black_level = 0 /\ white_level = 255 /\ brightness = 0 /\ contrast = 0
    /\ aspect_ratio = 100 /\ ~invert_colors

\* C16 (SpecDown), as stated: on a bitmap with W = 0 or H = 0 the
\* downsampler, the first stage of the pipeline, reports a condition of
\* its own and divides nothing by zero.
C16_EmptyInputReported ==
    (ret # <<>> /\ (arg.width = 0 \/ arg.height = 0)) =>
        ret[1].exc \notin {"", "ZeroDivisionError"}

\* the sizes optimize_image_for_ascii computes for a W x H bitmap, W > 0:
\* a product that is whole in exact arithmetic may fall just below it in
\* floating point and lose one in the truncation
Truncated(num, den) ==
    IF num % den = 0 THEN {num \div den - 1, num \div den} ELSE {num \div den}

OptimalSizes(W, H) ==
    IF (800 * H) \div W > 1200 \/ ((800 * H) % W = 0 /\ (800 * H) \div W - 1 > 1200)
    THEN {<<ow, 1200>> : ow \in Truncated(1200 * W, H)}
    ELSE IF (800 * H) \div W = 1201 /\ (800 * H) % W = 0
    THEN {<<ow, 1200>> : ow \in Truncated(1200 * W, H)} \cup {<<800, 1200>>}
    ELSE {<<800, oh>> : oh \in Truncated(800 * H, W)}

\* what the call returns once the sizes are optimal
Optimized(optimal) ==
    IF arg.width > optimal[1] \/ arg.height > optimal[2]
    THEN IF optimal[1] < 1 \/ optimal[2] < 1 THEN Raise("ValueError", None)
         ELSE Return(Image("optimized", optimal[1], optimal[2], arg.px))
    ELSE Return(arg)

\* C20 (SpecDown), as corrected: optimal_w = 800 and optimal_h = 800 * H/W
\* truncated, not rounded; if optimal_h > 1200 then optimal_h = 1200 and
\* optimal_w = 1200 / (H/W) truncated.  The bitmap is resampled to exactly
\* (optimal_w, optimal_h) when W > optimal_w or H > optimal_h, the resize
\* raising ValueError when optimal_w or optimal_h is below 1, and is
\* returned unchanged otherwise; W = 0 raises ZeroDivisionError.
C20_DownsamplerAlgorithm ==
    ret # <<>> =>
        IF arg.width = 0 THEN ret[1] = Raise("ZeroDivisionError", None)
        ELSE \E optimal \in OptimalSizes(arg.width, arg.height) :
                ret[1] = Optimized(optimal)

\* 800 * (2300/2000) is 920 in exact arithmetic and gives 919
C20_Witness ==
    /\ ret # <<>>
    /\ arg.width = 2000 /\ arg.height = 2300
    /\ ret[1] = Return(Image("optimized", 800, 919, arg.px))

\* C20 as stated: optimal_h = round(800 * H/W); if optimal_h > 1200 then
\* optimal_h = 1200 and optimal_w = round(1200 * W/H); the bitmap is
\* resampled to (optimal_w, optimal_h) when W > optimal_w or H > optimal_h
\* and returned unchanged otherwise.
C20_AsStated ==
    (ret # <<>> /\ arg.width > 0 /\ arg.height > 0) =>
        LET W == arg.width
            H == arg.height
            rounded == (1600 * H + W) \div (2 * W)
            optimal_h == IF rounded > 1200 THEN 1200 ELSE rounded
            optimal_w == IF rounded > 1200 THEN (2400 * W + H) \div (2 * H) ELSE 800
        IN ret[1] = IF W > optimal_w \/ H > optimal_h
                    THEN Return(Image("optimized", optimal_w, optimal_h, arg.px))
                    ELSE Return(arg)

\* C18 (Spec), as stated: while an image is loaded, ascii_text is what
\* image_to_ascii(original_image, width) gives under the current settings
\* (no text when the call raises), never a render made under earlier
\* settings.
C18_FreshRender ==
    original_image # None =>
        ascii_text = image_to_ascii(Self, original_image, width_var).text

\* the bitmap or a setting image_to_ascii reads changes in the step
RenderInputsChange ==
    <<original_image, black_level, white_level, gamma, brightness, contrast,
      width_var, aspect_ratio, invert_colors, ascii_chars>>' #
    <<original_image, black_level, white_level, gamma, brightness, contrast,
      width_var, aspect_ratio, invert_colors, ascii_chars>>

\* C19 (Spec): a step that changes the bitmap or a setting and leaves a
\* bitmap loaded for which the render height is 0 or less shows the dialog
\* "Conversion Error" and leaves ascii_text as it was.
C19_InvalidHeightReported ==
    [][(/\ RenderInputsChange
        /\ original_image' # None
        /\ RenderHeight(original_image', width_var', aspect_ratio') <= 0)
       => (messagebox' = "Conversion Error" /\ ascii_text' = ascii_text)]_vars

\* the banner rendered 80 wide, then the width set to 20: the two lines of
\* 80 glyphs are still there
C19_Witness ==
    /\ original_image # None
    /\ original_image.width = 800 /\ original_image.height = 50
    /\ width_var = 20
    /\ RenderHeight(original_image, width_var, aspect_ratio) = 0
    /\ messagebox = "Conversion Error"
    /\ Len(ascii_text) = 161
    /\ ascii_text[81] = "\n"

\* C21 (SpecDown), as stated: on a bitmap at least 1 x 1 the downsampler
\* returns a bitmap, the one given or the resampled one, that is at least
\* 1 x 1.
C21_DownsamplerWellFormed ==
    (ret # <<>> /\ arg.width >= 1 /\ arg.height >= 1) =>
        /\ ret[1].exc = ""
        /\ ret[1].val.width >= 1
        /\ ret[1].val.height >= 1

\* the float n is num/den up to the rounding of float32, for den > 0
Near(n, num, den) ==
    LET off == FSub(FMul(n, FromInt(den), 53), FromInt(num), 53)
        far == FMul(IF off.s < 0 THEN FNeg(off) ELSE off, FromInt(1048576), 53)
    IN FCmp(far, FromInt(den)) <= 0

\* C22 (SpecChannel): with black_level # white_level the levels step makes
\* of the channel value v the float n = clamp((v - black)/(white - black),
\* 0, 1): n lies in [0, 1], it is 0 at or below black and 1 at or above
\* white when black < white (1 at or below white and 0 at or above black
\* when black > white), and between the two it is the quotient up to the
\* rounding of float32.
C22_LevelsNormalization ==
    ret # <<>> =>
        LET v == ret[1].v
            n == ret[1].n
            d == white_level - black_level
            num == IF d > 0 THEN v - black_level ELSE black_level - v
            den == IF d > 0 THEN d ELSE -d
        IN /\ n.k = "fin"
           /\ FCmp(n, FromInt(0)) >= 0 /\ FCmp(n, FromInt(1)) <= 0
           /\ IF num <= 0 THEN FCmp(n, FromInt(0)) = 0
              ELSE IF num >= den THEN FCmp(n, FromInt(1)) = 0
              ELSE Near(n, num, den)

\* black 200 above white 100: 150 lies halfway
C22_Witness ==
    /\ ret # <<>>
    /\ black_level = 200 /\ white_level = 100
    /\ ret[1].v = 150
    /\ FCmp(ret[1].n, Fin(1, <<1>>, -1)) = 0

\* C28 (SpecChannel): with black_level < white_level the channel of the
\* bitmap apply_adjustments returns for a value v is at least the one it
\* returns for every value below v.
C28_ToneMonotonic ==
    (Len(ret) = 2 /\ black_level < white_level) => ret[1].out >= ret[2]

C28_Witness ==
    /\ Len(ret) = 2
    /\ ToneOf(Self) = Tone(100, 200, 5, -50, 50)
    /\ ret[1].v = 180
    /\ ret[1].out = 85
    /\ ret[2] = 79

\* the stored bitmap, the ToneSettings and the RenderSettings of self
StoredInputs(self) ==
    <<self.original_image, ToneOf(self), self.width_var, self.aspect_ratio,
      self.invert_colors, self.current_ascii_set, self.ascii_chars>>

\* C23 (Spec): drawing the histogram of the adjusted bitmap and converting
\* leave original_image, the ToneSettings and the RenderSettings of the
\* object as they are, and original_image changes only in a step that
\* loads a file (or starts the program again, without a bitmap).
C23_ReadOnlyStages ==
    /\ [](/\ StoredInputs(update_histogram(Self,
                               apply_adjustments(Self, original_image)))
              = StoredInputs(Self)
          /\ StoredInputs(convert_to_ascii(Self)) = StoredInputs(Self)
          /\ StoredInputs(on_histogram_resize(Self)) = StoredInputs(Self))
    /\ [][original_image' # original_image =>
              \/ original_image' = None /\ ascii_text' = <<>>
              \/ \E f \in DOMAIN Files :
                     optimize_image_for_ascii(Files[f]) = Return(original_image')]_vars

\* the banner loaded and its histogram drawn under a brightness of 50: the
\* adjusted bitmap differs, the stored one is as loaded
C23_Witness ==
    /\ original_image = Image("optimized", 800, 50, <<200, 100, 50>>)
    /\ ToneOf(Self) = Tone(0, 255, DefaultGamma, 50, 0)
    /\ apply_adjustments(Self, original_image).px # original_image.px
    /\ hist_canvas.shows = "bars"
    /\ hist_canvas = update_histogram(Self, apply_adjustments(Self, original_image))
                          .hist_canvas
    /\ ascii_text # <<>>

\* C24 (SpecPrefs), as stated: after a launch on any configuration file and
\* after every handler, current_ascii_set is a key of ascii_sets and
\* ascii_chars is the ramp ascii_sets holds under it.
C24_RampConsistent ==
    /\ current_ascii_set \in DOMAIN ascii_sets
    /\ ascii_chars = ascii_sets[current_ascii_set]

\* C25 (Spec): every step that changes one of the nine persisted settings,
\* unless it is a launch (which reads the file), leaves the file holding
\* the nine values the object has after it.
C25_PersistedTrackMemory ==
    [][PreferencesOf(Self)' # PreferencesOf(Self) =>
          \/ config_file' = <<PreferencesOf(Self)'>>
          \/ Self' = Constructed(config_file)]_vars

\* a setting other than the saved ones differs from its default, so the
\* file was written by handlers of several settings
C25_Witness ==
    /\ config_file = <<PreferencesOf(Self)>>
    /\ gamma = 5
    /\ brightness = 50
    /\ invert_colors
    /\ current_ascii_set = "8-Level Minimalist (Classic)"

\* C26 (SpecRoundTrip): after save_preferences and a launch of a fresh
\* object on the file it wrote, the nine settings and ascii_chars are
\* those the object had before the save.
C26_PreferenceRoundTrip ==
    events = 2 =>
        /\ PreferencesOf(Self) = PreferencesOf(arg)
        /\ ascii_chars = arg.ascii_chars

C26_Witness ==
    /\ events = 2
    /\ arg.gamma = 25 /\ gamma = 25
    /\ arg.brightness = -100 /\ brightness = -100
    /\ arg.current_ascii_set = "Unicode Blocks"
    /\ ascii_chars = ascii_sets["Unicode Blocks"]
    /\ invert_colors
    /\ ascii_font_size = 24

\* what reset_all_adjustments leaves alone
KeptByReset(self) ==
    <<self.original_image, self.width_var, self.aspect_ratio, self.invert_colors,
      self.current_ascii_set, self.ascii_chars>>

\* C27 (Spec), as stated: in every reachable state reset_all_adjustments
\* sets the ToneSettings to black 0, white 255, gamma 1.0, brightness 0,
\* contrast 0, keeps the bitmap, the width, the aspect percent, the invert
\* flag and the ramp, and with a bitmap loaded leaves ascii_text the render
\* of the bitmap under these settings.
C27_ResetAll ==
    /\ ToneOf(reset_all_adjustments(Self)) = DefaultTone
    /\ KeptByReset(reset_all_adjustments(Self)) = KeptByReset(Self)
    /\ original_image # None =>
           reset_all_adjustments(Self).ascii_text =
               image_to_ascii(reset_all_adjustments(Self), original_image, width_var).text

\* C29 (Spec), as stated: the Save ASCII and Copy to Clipboard buttons are
\* enabled only while ascii_text is not empty.
C29_SaveCopyAvailability ==
    (save_btn = "normal" \/ copy_btn = "normal") => ascii_text # <<>>

====
